---------------------------- MODULE Spec2Model ----------------------------
(***************************************************************************)
(* Model of the three assessment engines of the GlauCat vision simulator:  *)
(*   - FieldTest     (src/app/vision-simulator/FieldTest.tsx)              *)
(*   - ContrastTest  (src/app/vision-simulator/ContrastTest.tsx, 1-482)    *)
(*   - IrisTracker   (src/app/vision-simulator/ContrastTest.tsx, 484-902)  *)
(* Every engine is a React component: a handler or a timer callback runs   *)
(* to completion (one action), and state set by it is committed before the *)
(* next event is handled.  Times are in milliseconds, contrasts and        *)
(* landmark coordinates in thousandths.                                    *)
(***************************************************************************)
EXTENDS Integers, Sequences, FiniteSets, TLC

VARIABLES
  \* ---- FieldTest ----
  ftMounted,        \* the component instance is mounted (its DOM can be clicked)
  started,          \* useState started
  done,             \* useState done
  totalTrials,      \* useState totalTrials, in halves of a trial
  maxReaction,      \* useState maxReaction
  totalTrialsRef,   \* useRef totalTrialsRef, in halves of a trial
  maxReactionRef,   \* useRef maxReactionRef
  reactionTimesRef, \* useRef reactionTimesRef: sequence of ms
  missesRef,        \* useRef missesRef
  trialRef,         \* useRef trialRef
  dotVisibleRef,    \* useRef dotVisibleRef
  startTimeRef,     \* useRef startTimeRef: "null" or "set"
  elapsed,          \* Date.now() - startTimeRef.current, in ms
  timerRef,         \* useRef timerRef: "null", or the kind of timer whose id it holds
  pending,          \* browser timer queue of the component: number of pending timers per kind
  fieldResults,     \* sequence of the results passed to onResult
  completedTrials,  \* history: number of trials that ended (response or miss)
  windowOpen,       \* history: a stimulus was revealed and neither answered nor timed out
  ftEvent,          \* history: the handler that ran last and what it did
  \* ---- ContrastTest ----
  ctMounted,        \* the component instance is mounted
  rngSeed,          \* useRef rngSeed
  phase,            \* useState phase
  trialIndex,       \* useState trialIndex
  staircaseLevel,   \* useState staircaseLevel
  currentAnswer,    \* useState currentAnswer: the text in the input
  history,          \* useState history: sequence of records
  showResult,       \* useState showResult
  finishTimers,     \* pending 120 ms timers, oldest first, each with its allRecords
  contrastResults,  \* sequence of the scores passed to onResult
  retries,          \* history: clicks on Retry
  ctEvent,          \* history: the handler that ran last and what it did
  \* ---- IrisTracker ----
  itMounted,        \* the component instance is mounted
  running,          \* useState running
  detections,       \* useRef detections: [left, right, up, down]
  baseline,         \* useRef baseline: <<>> for null, else <<[lx, ly, rx, ry]>>
  calibFrames,      \* useRef calibFrames
  frameCount,       \* useRef frameCount
  effects,          \* the closures of the runs of the effect that called start()
  curEffect,        \* the closure of the effect in force; 0 when that run did not start
  videoSrc,         \* videoRef.current.srcObject: 0 for null, else the closure whose stream it is
  gazeResults,      \* sequence of the summaries passed to onComplete
  faceFrames,       \* history: face-bearing frames handled since the session began
  calibSum,         \* history: the eye centroids of the first 40 of them, summed
  completions,      \* history: onComplete calls since the last click on Start
  itEvent,          \* history: the handler that ran last and what it did
  \* ---- VisualSimulator, the page that renders the tracker ----
  cameraOn,         \* useState cameraOn
  cameraError,      \* useState cameraError: TRUE when a message is set
  pageEffects,      \* the closures of the runs of the camera effect that called start()
  streamRef,        \* useRef streamRef: 0 for null, else the closure whose stream it is
  step,             \* useState step: the step the page shows
  \* ---- finishTest applied to chosen inputs (the score as a function) ----
  probe,            \* the result finishTest computes for the inputs chosen last
  probePrev         \* the result it computed for the inputs chosen before

ftVars == <<ftMounted, started, done, totalTrials, maxReaction, totalTrialsRef,
            maxReactionRef, reactionTimesRef, missesRef, trialRef, dotVisibleRef,
            startTimeRef, elapsed, timerRef, pending, fieldResults,
            completedTrials, windowOpen, ftEvent>>

ctVars == <<ctMounted, rngSeed, phase, trialIndex, staircaseLevel, currentAnswer,
            history, showResult, finishTimers, contrastResults, retries,
            ctEvent>>

itVars == <<itMounted, running, detections, baseline, calibFrames, frameCount,
            effects, curEffect, videoSrc, gazeResults, faceFrames, calibSum,
            completions, itEvent>>

pgVars == <<cameraOn, cameraError, pageEffects, streamRef>>

\* the step of the page; the components are modelled each on its own and their
\* handlers do not read it
navVars == <<step>>

probeVars == <<probe, probePrev>>

vars == <<ftVars, ctVars, itVars, pgVars, navVars, probeVars>>

\* what the handlers of one component leave alone: the other components
ftOthers == <<ctVars, itVars, pgVars, navVars, probeVars>>
ctOthers == <<ftVars, itVars, pgVars, navVars, probeVars>>
itOthers == <<ftVars, ctVars, pgVars, navVars, probeVars>>
pgOthers == <<ftVars, ctVars, navVars, probeVars>>
navOthers == <<ftVars, ctVars, pgVars, probeVars>>
probeOthers == <<ftVars, ctVars, itVars, pgVars, navVars>>

-----------------------------------------------------------------------------
\* Bounds of the model

\* granularity of the clock that runs while the stimulus is visible
TickMs == 1000

\* how long after it is due the callback of a timer may run, in ms
MaxLateMs == 1

\* clicks on Retry, and the submissions of a run begun after Retry
MaxRetries == 1
MaxRetrySubmits == 2

\* submissions accepted beyond the 9th before the model stops accepting them
MaxExtraSubmits == 1

\* runs of the IrisTracker effect that call start(), per mount
MaxEffects == 1

\* frames handled by onResults in one session
MaxFrames == 17

\* frames handled by onResults in a session followed through its calibration
\* window: the 40 frames of the window and one more
MaxCalibFrames == 41

\* the same two bounds where the tracker runs together with its page, and the
\* runs of the page's camera effect that call start()
MaxTrackerEffects == 2
MaxTrackerFrames == 2
MaxPageStarts == 2

\* values Math.floor(Math.random() * 1e9) can give to rngSeed
Seeds == {0, 1}

\* the limits and defaults of the two FieldTest inputs
MinTrials == 3
MaxTrials == 12
DefaultTrials == 6
MinReaction == 800
MaxReactionLimit == 5000
DefaultReaction == 2000

\* what can be entered into the two number inputs: <<>> is a text that is not
\* a number.  Trial counts are held in halves, so that 4.5 can be entered:
\* the texts "", "0", "2", "3" and "4.5"
RawTrialInputs == {<<>>, <<0>>, <<4>>, <<6>>, <<9>>}
RawReactionInputs == {<<>>, <<0>>, <<500>>, <<1000>>}

-----------------------------------------------------------------------------
\* Arithmetic helpers (JavaScript Math.*)

Max(a, b) == IF a >= b THEN a ELSE b
Min(a, b) == IF a <= b THEN a ELSE b

\* Math.round of the rational num/den (den > 0): nearest integer, halves up
MathRound(num, den) == (2 * num + den) \div (2 * den)

RECURSIVE SumSeq(_)
SumSeq(s) == IF s = <<>> THEN 0 ELSE Head(s) + SumSeq(Tail(s))

\* Number(text) || dflt
NumberOr(raw, dflt) == IF raw = <<>> \/ raw[1] = 0 THEN dflt ELSE raw[1]

\* a Math.max that returns its second argument: a clamp without its floor
MaxNoFloor(a, b) == b

\* Math.max(floor, ...) of the two onChange handlers
clampFloor(a, b) == IF a >= b THEN a ELSE b

\* the value the Trials onChange sets for a text, in halves of a trial
trialsInput(raw) ==
  clampFloor(2 * MinTrials, Min(2 * MaxTrials, NumberOr(raw, 2 * DefaultTrials)))

\* the value the Max reaction onChange sets for a text
reactionInput(raw) ==
  clampFloor(MinReaction, Min(MaxReactionLimit, NumberOr(raw, DefaultReaction)))

-----------------------------------------------------------------------------
\* FieldTest

\* a clearTimer() that forgets the timer without cancelling it
clearTimerNoCancel(ref, pend) == pend

\* clearTimer(): cancels the timer whose id timerRef holds, if it is pending
clearTimer(ref, pend) ==
  IF ref \in {"miss", "pause"} /\ pend[ref] > 0
  THEN [pend EXCEPT ![ref] = @ - 1]
  ELSE pend

\* a showDot() that schedules the reveal timer and no miss timer
showDotPendingNoMiss(ref, pend) ==
  [clearTimer(ref, pend) EXCEPT !.reveal = @ + 1]

\* showDot(): clears the referenced timer, then schedules the miss timer
\* (kept in timerRef) and the reveal timer (kept nowhere)
showDotPending(ref, pend) ==
  [clearTimer(ref, pend) EXCEPT !.miss = @ + 1, !.reveal = @ + 1]

\* a handleClick() that calls showDot() at once instead of setting the pause
\* timer
pausePendingShowDot(ref, pend) == showDotPending(ref, pend)

\* handleClick(), a response that is not the last: clears the miss timer and
\* sets the 800 ms pause timer (kept in timerRef)
pausePending(ref, pend) == [clearTimer(ref, pend) EXCEPT !.pause = @ + 1]

\* "advance or finish": another trial follows the one that just ended (the
\* total is in halves)
moreTrials(trial, total) == 2 * (trial + 1) < total

\* the guard of the miss timer callback: a miss is recorded if the dot is shown
missedDot(visible) == visible

\* handleClick without the check that the dot is shown
clickAcceptedNoVisibleCheck(visible, startTime) == startTime # "null"

\* the guard of handleClick: it returns at once unless this holds
clickAccepted(visible, startTime) == visible /\ startTime # "null"

\* finishTest() that averages an empty list to 0 and rounds down
finishTestFloor(rts, misses, maxReactionV) ==
  LET n      == Len(rts)
      avgNum == IF n > 0 THEN SumSeq(rts) ELSE 0
      avgDen == IF n > 0 THEN n ELSE 1
      raw    == 10 - misses - ((avgNum - 200 * avgDen) \div (200 * avgDen))
  IN  [score |-> Max(1, Min(10, raw)), misses |-> misses,
       avgNum |-> avgNum, avgDen |-> avgDen, rts |-> rts]

\* finishTest() without the lower clamp of the score
finishTestNoFloorClamp(rts, misses, maxReactionV) ==
  LET n      == Len(rts)
      avgNum == IF n > 0 THEN SumSeq(rts) ELSE maxReactionV
      avgDen == IF n > 0 THEN n ELSE 1
      raw    == 10 - misses - MathRound(avgNum - 200 * avgDen, 200 * avgDen)
  IN  [score |-> Min(10, raw), misses |-> misses,
       avgNum |-> avgNum, avgDen |-> avgDen, rts |-> rts]

\* finishTest(): the result passed to onResult; avg is the rational avgNum/avgDen
finishTestResult(rts, misses, maxReactionV) ==
  LET n      == Len(rts)
      avgNum == IF n > 0 THEN SumSeq(rts) ELSE maxReactionV
      avgDen == IF n > 0 THEN n ELSE 1
      raw    == 10 - misses - MathRound(avgNum - 200 * avgDen, 200 * avgDen)
  IN  [score |-> Max(1, Min(10, raw)), misses |-> misses,
       avgNum |-> avgNum, avgDen |-> avgDen, rts |-> rts]

FtInit ==
  /\ ftMounted = TRUE
  /\ started = FALSE
  /\ done = FALSE
  /\ totalTrials = 2 * DefaultTrials
  /\ maxReaction = DefaultReaction
  /\ totalTrialsRef = 2 * DefaultTrials
  /\ maxReactionRef = DefaultReaction
  /\ reactionTimesRef = <<>>
  /\ missesRef = 0
  /\ trialRef = 0
  /\ dotVisibleRef = FALSE
  /\ startTimeRef = "null"
  /\ elapsed = 0
  /\ timerRef = "null"
  /\ pending = [miss |-> 0, pause |-> 0, reveal |-> 0]
  /\ fieldResults = <<>>
  /\ completedTrials = 0
  /\ windowOpen = FALSE
  /\ ftEvent = "init"

\* onChange of the Trials input
SetTotalTrials(raw) ==
  /\ UNCHANGED ftOthers
  /\ ftMounted /\ ~started
  /\ totalTrials' = trialsInput(raw)
  /\ ftEvent' = "setTotalTrials"
  /\ UNCHANGED <<ftMounted, started, done, maxReaction, totalTrialsRef,
                 maxReactionRef, reactionTimesRef, missesRef, trialRef,
                 dotVisibleRef, startTimeRef, elapsed, timerRef, pending,
                 fieldResults, completedTrials, windowOpen>>

\* onChange of the Max reaction input
SetMaxReaction(raw) ==
  /\ UNCHANGED ftOthers
  /\ ftMounted /\ ~started
  /\ maxReaction' = reactionInput(raw)
  /\ ftEvent' = "setMaxReaction"
  /\ UNCHANGED <<ftMounted, started, done, totalTrials, totalTrialsRef,
                 maxReactionRef, reactionTimesRef, missesRef, trialRef,
                 dotVisibleRef, startTimeRef, elapsed, timerRef, pending,
                 fieldResults, completedTrials, windowOpen>>

\* startTest(): the Start button, rendered only while !started
startTest ==
  /\ UNCHANGED ftOthers
  /\ ftMounted /\ ~started
  /\ reactionTimesRef' = <<>>
  /\ missesRef' = 0
  /\ trialRef' = 0
  /\ totalTrialsRef' = totalTrials
  /\ maxReactionRef' = maxReaction
  /\ done' = FALSE
  /\ started' = TRUE
  \* clearTimer(); showDot()
  /\ pending' = showDotPending("null", clearTimer(timerRef, pending))
  /\ timerRef' = "miss"
  /\ dotVisibleRef' = FALSE
  /\ completedTrials' = 0
  /\ windowOpen' = FALSE
  /\ ftEvent' = "start"
  /\ UNCHANGED <<ftMounted, totalTrials, maxReaction, startTimeRef, elapsed,
                 fieldResults>>

\* the reveal timer of showDot (delay ms after showDot)
RevealTimer ==
  /\ UNCHANGED ftOthers
  /\ pending.reveal > 0
  /\ pending' = [pending EXCEPT !.reveal = @ - 1]
  /\ dotVisibleRef' = TRUE
  /\ startTimeRef' = "set"
  /\ elapsed' = 0
  /\ windowOpen' = TRUE
  /\ ftEvent' = "reveal"
  /\ UNCHANGED <<ftMounted, started, done, totalTrials, maxReaction,
                 totalTrialsRef, maxReactionRef, reactionTimesRef, missesRef,
                 trialRef, timerRef, fieldResults, completedTrials>>

\* time passes while the stimulus is shown; the miss timer is due
\* maxReactionRef ms after the reveal timer, and window.setTimeout runs its
\* callback then or later, never earlier
Tick ==
  /\ UNCHANGED ftOthers
  /\ dotVisibleRef /\ pending.miss > 0
  /\ elapsed < maxReactionRef + MaxLateMs
  /\ elapsed' = IF elapsed < maxReactionRef
                THEN Min(elapsed + TickMs, maxReactionRef)
                ELSE maxReactionRef + MaxLateMs
  /\ ftEvent' = "tick"
  /\ UNCHANGED <<ftMounted, started, done, totalTrials, maxReaction,
                 totalTrialsRef, maxReactionRef, reactionTimesRef, missesRef,
                 trialRef, dotVisibleRef, startTimeRef, timerRef, pending,
                 fieldResults, completedTrials, windowOpen>>

\* the miss timer callback of showDot (delay + maxReactionRef ms after showDot,
\* hence after the reveal timer of the same showDot)
MissTimer ==
  /\ UNCHANGED ftOthers
  /\ pending.miss > 0
  /\ pending.reveal = 0
  /\ elapsed >= maxReactionRef
  /\ LET missed == missedDot(dotVisibleRef)
         pend1  == [pending EXCEPT !.miss = @ - 1]
         ref1   == IF timerRef = "miss" THEN "fired" ELSE timerRef
     IN
     /\ missesRef' = IF missed THEN missesRef + 1 ELSE missesRef
     /\ dotVisibleRef' = FALSE
     /\ completedTrials' = completedTrials + 1
     /\ windowOpen' = FALSE
     /\ ftEvent' = IF missed THEN "miss" ELSE "expiry"
     /\ IF moreTrials(trialRef, totalTrialsRef)
        THEN /\ trialRef' = trialRef + 1
             /\ pending' = showDotPending(ref1, pend1)
             /\ timerRef' = "miss"
             /\ UNCHANGED <<done, fieldResults>>
        ELSE /\ pending' = clearTimer(ref1, pend1)
             /\ timerRef' = "null"
             /\ done' = TRUE
             /\ fieldResults' = Append(fieldResults,
                   finishTestResult(reactionTimesRef, missesRef', maxReaction))
             /\ UNCHANGED trialRef
  /\ UNCHANGED <<ftMounted, started, totalTrials, maxReaction, totalTrialsRef,
                 maxReactionRef, reactionTimesRef, startTimeRef, elapsed>>

\* the 800 ms inter-trial pause timer set by handleClick: showDot()
PauseTimer ==
  /\ UNCHANGED ftOthers
  /\ pending.pause > 0
  /\ LET pend1 == [pending EXCEPT !.pause = @ - 1]
         ref1  == IF timerRef = "pause" THEN "fired" ELSE timerRef
     IN  /\ pending' = showDotPending(ref1, pend1)
         /\ timerRef' = "miss"
  /\ dotVisibleRef' = FALSE
  /\ ftEvent' = "pauseOver"
  /\ UNCHANGED <<ftMounted, started, done, totalTrials, maxReaction,
                 totalTrialsRef, maxReactionRef, reactionTimesRef, missesRef,
                 trialRef, startTimeRef, elapsed, fieldResults, completedTrials,
                 windowOpen>>

\* handleClick(): a response event
handleClick ==
  /\ UNCHANGED ftOthers
  /\ ftMounted
  /\ IF ~clickAccepted(dotVisibleRef, startTimeRef)
     THEN /\ ftEvent' = "clickIgnored"
          /\ UNCHANGED <<done, reactionTimesRef, missesRef, trialRef,
                         dotVisibleRef, timerRef, pending, fieldResults,
                         completedTrials, windowOpen>>
     ELSE /\ reactionTimesRef' = Append(reactionTimesRef, elapsed)
          /\ dotVisibleRef' = FALSE
          /\ completedTrials' = completedTrials + 1
          /\ windowOpen' = FALSE
          /\ ftEvent' = "response"
          /\ IF moreTrials(trialRef, totalTrialsRef)
             THEN /\ trialRef' = trialRef + 1
                  /\ pending' = pausePending(timerRef, pending)
                  /\ timerRef' = "pause"
                  /\ UNCHANGED <<done, fieldResults>>
             ELSE /\ pending' = clearTimer(timerRef, pending)
                  /\ timerRef' = "null"
                  /\ done' = TRUE
                  /\ fieldResults' = Append(fieldResults,
                        finishTestResult(reactionTimesRef', missesRef, maxReaction))
                  /\ UNCHANGED trialRef
          /\ UNCHANGED missesRef
  /\ UNCHANGED <<ftMounted, started, totalTrials, maxReaction, totalTrialsRef,
                 maxReactionRef, startTimeRef, elapsed>>

\* the orchestrator leaves step 2: the component is unmounted; FieldTest
\* registers no cleanup, so its timers stay pending
FtUnmount ==
  /\ UNCHANGED ftOthers
  /\ ftMounted
  /\ ftMounted' = FALSE
  /\ ftEvent' = "unmount"
  /\ UNCHANGED <<started, done, totalTrials, maxReaction, totalTrialsRef,
                 maxReactionRef, reactionTimesRef, missesRef, trialRef,
                 dotVisibleRef, startTimeRef, elapsed, timerRef, pending,
                 fieldResults, completedTrials, windowOpen>>

FtNext ==
  \/ \E raw \in RawTrialInputs : SetTotalTrials(raw)
  \/ \E raw \in RawReactionInputs : SetMaxReaction(raw)
  \/ startTest
  \/ RevealTimer
  \/ Tick
  \/ MissTimer
  \/ PauseTimer
  \/ handleClick
  \/ FtUnmount

-----------------------------------------------------------------------------
\* ContrastTest.  Texts are sequences of characters; contrasts and difficulty
\* factors are in millionths.

TOTAL_TRIALS == 9
MIN_CONTRAST == 80000
MAX_CONTRAST == 980000
MaxLevel == 8
StartLevel == 4

UpperToLower ==
  ("V" :> "v") @@ ("E" :> "e") @@ ("R" :> "r") @@ ("T" :> "t") @@ ("I" :> "i")
  @@ ("C" :> "c") @@ ("A" :> "a") @@ ("L" :> "l") @@ ("H" :> "h") @@ ("O" :> "o")
  @@ ("Z" :> "z") @@ ("N" :> "n") @@ ("D" :> "d") @@ ("G" :> "g") @@ ("X" :> "x")

\* String.prototype.toLowerCase
toLowerCase(t) ==
  [i \in 1..Len(t) |-> IF t[i] \in DOMAIN UpperToLower THEN UpperToLower[t[i]] ELSE t[i]]

\* String.prototype.toUpperCase (used to type an answer in capitals)
toUpperCase(t) ==
  [i \in 1..Len(t) |->
     IF \E u \in DOMAIN UpperToLower : UpperToLower[u] = t[i]
     THEN CHOOSE u \in DOMAIN UpperToLower : UpperToLower[u] = t[i]
     ELSE t[i]]

RECURSIVE trimStart(_)
trimStart(t) == IF t # <<>> /\ Head(t) = " " THEN trimStart(Tail(t)) ELSE t

RECURSIVE trimEnd(_)
trimEnd(t) ==
  IF t # <<>> /\ t[Len(t)] = " " THEN trimEnd(SubSeq(t, 1, Len(t) - 1)) ELSE t

\* a trim that keeps the blanks
trimNothing(t) == t

\* String.prototype.trim
trim(t) == trimEnd(trimStart(t))

\* basePlates; a field a plate type does not have is <<>> or 0
basePlates == <<
  [type |-> "grating", orientation |-> <<"v","e","r","t","i","c","a","l">>,
   answer |-> <<>>, baseContrast |-> 850, baseDifficulty |-> 0, freq |-> 8],
  [type |-> "grating", orientation |-> <<"h","o","r","i","z","o","n","t","a","l">>,
   answer |-> <<>>, baseContrast |-> 700, baseDifficulty |-> 0, freq |-> 12],
  [type |-> "grating", orientation |-> <<"d","i","a","g","o","n","a","l">>,
   answer |-> <<>>, baseContrast |-> 550, baseDifficulty |-> 0, freq |-> 10],
  [type |-> "noise", orientation |-> <<>>, answer |-> <<"1","2">>,
   baseContrast |-> 0, baseDifficulty |-> 1, freq |-> 0],
  [type |-> "noise", orientation |-> <<>>, answer |-> <<"8">>,
   baseContrast |-> 0, baseDifficulty |-> 2, freq |-> 0],
  [type |-> "noise", orientation |-> <<>>, answer |-> <<"2","9">>,
   baseContrast |-> 0, baseDifficulty |-> 3, freq |-> 0],
  [type |-> "number", orientation |-> <<>>, answer |-> <<"5">>,
   baseContrast |-> 320, baseDifficulty |-> 0, freq |-> 0],
  [type |-> "number", orientation |-> <<>>, answer |-> <<"3">>,
   baseContrast |-> 220, baseDifficulty |-> 0, freq |-> 0],
  [type |-> "number", orientation |-> <<>>, answer |-> <<"7">>,
   baseContrast |-> 140, baseDifficulty |-> 0, freq |-> 0] >>

\* hash(x)
hash(x) == (x * 9301 + 49297) % 233280

\* Math.abs
Abs(x) == IF x < 0 THEN -x ELSE x

\* the contrast multiplier 0.2 + (level / 8) * 0.8, in thousandths
levelFactor(level) == 200 + (level * 800) \div MaxLevel

\* Number(c.toFixed(3)): c in millionths rounded to a whole number of thousandths
toFixed3(c) == MathRound(c, 1000) * 1000

\* a levelToContrast without the clamp
levelToContrastUnclamped(level, baseContrast) ==
  toFixed3(baseContrast * levelFactor(level))

\* levelToContrast(level, baseContrast), baseContrast in thousandths
levelToContrast(level, baseContrast) ==
  toFixed3(Max(MIN_CONTRAST, Min(MAX_CONTRAST, baseContrast * levelFactor(level))))

\* levelToDifficulty(level, baseDifficulty)
levelToDifficulty(level, baseDifficulty) ==
  Max(50000, Min(1000, 1000 - (baseDifficulty - 1) * 150) * levelFactor(level))

\* a plate choice that also depends on the parity of the seed's hash
choosePlateSkewed(trial, level, seed) ==
  ((trial + level + 2 * Abs(hash(seed))) % Len(basePlates)) + 1

\* a choosePlateForLevel that leaves the staircase level out of the key
choosePlateIgnoringLevel(trial, level, seed) ==
  ((trial + Abs(hash(seed))) % Len(basePlates)) + 1

\* choosePlateForLevel(level): the 1-based place in basePlates
choosePlateForLevel(trial, level, seed) ==
  ((trial + level + Abs(hash(seed))) % Len(basePlates)) + 1

\* currentPlate: the chosen plate with its effective contrast or difficulty factor
currentPlate(trial, level, seed) ==
  LET idx   == choosePlateForLevel(trial, level, seed)
      plate == basePlates[idx]
  IN  [idx |-> idx, type |-> plate.type, orientation |-> plate.orientation,
       answer |-> plate.answer,
       contrast |-> IF plate.type = "noise"
                    THEN levelToDifficulty(level, plate.baseDifficulty)
                    ELSE levelToContrast(level, plate.baseContrast)]

\* the label a plate is answered with
plateLabel(plate) == IF plate.type = "grating" THEN plate.orientation ELSE plate.answer

\* a correctness test that compares the letters as typed
isCorrectCaseSensitive(plate, ans) ==
  IF plate.type = "grating" THEN ans = plate.orientation ELSE ans = plate.answer

\* handleSubmit: "evaluate correctness" of the trimmed answer
isCorrect(plate, ans) ==
  IF plate.type = "grating"
  THEN toLowerCase(ans) = toLowerCase(plate.orientation)
  ELSE IF plate.type \in {"noise", "number"}
  THEN toLowerCase(ans) = toLowerCase(plate.answer)
  ELSE FALSE

\* the staircase update without the clamp to 0..8
nextLevelUnclamped(lvl, correct) == IF correct THEN lvl + 1 ELSE lvl - 1

\* the staircase update of handleSubmit
nextLevel(lvl, correct) ==
  IF correct THEN Min(MaxLevel, lvl + 1) ELSE Max(0, lvl - 1)

\* "if finished": the submission schedules finishTest
lastTrial(trial) == trial + 1 >= TOTAL_TRIALS

\* finishTest(allRecords) without the + 1
finalScoreNoOffset(allRecords) ==
  LET correctCount == Cardinality({i \in 1..Len(allRecords) : allRecords[i].correct})
  IN  Max(1, MathRound(correctCount * 9, TOTAL_TRIALS))

\* finishTest(allRecords): the score passed to onResult
finalScore(allRecords) ==
  LET correctCount == Cardinality({i \in 1..Len(allRecords) : allRecords[i].correct})
  IN  Max(1, MathRound(correctCount * 9, TOTAL_TRIALS) + 1)

\* the form of the testing view is rendered
formShown == phase # "calibration" /\ ~(phase = "done" /\ showResult)

\* texts a user may type for a plate: nothing, a blank, its label, its label
\* in capitals between blanks, and a wrong text
TypedAnswers(plate) ==
  {<<>>, <<" ">>, plateLabel(plate),
   <<" ">> \o toUpperCase(plateLabel(plate)) \o <<" ">>, <<"x">>}

\* a Start Test that leaves the staircase level as it is
startTestLevelKept(lvl) == lvl

\* the level the Start Test button sets, whatever the level was
startTestLevel(lvl) == StartLevel

CtInit ==
  /\ ctMounted = FALSE
  /\ rngSeed = 0
  /\ phase = "calibration"
  /\ trialIndex = 0
  /\ staircaseLevel = StartLevel
  /\ currentAnswer = <<>>
  /\ history = <<>>
  /\ showResult = FALSE
  /\ finishTimers = <<>>
  /\ contrastResults = <<>>
  /\ retries = 0
  /\ ctEvent = "init"

\* the component is mounted (step 4 of the page): its state and refs are created
CtMount(seed) ==
  /\ UNCHANGED ctOthers
  /\ ~ctMounted /\ ctEvent = "init"
  /\ ctMounted' = TRUE
  /\ rngSeed' = seed
  /\ ctEvent' = "mount"
  /\ UNCHANGED <<phase, trialIndex, staircaseLevel, currentAnswer, history,
                 showResult, finishTimers, contrastResults, retries>>

\* the Start Test button of the calibration view
CtStartTest ==
  /\ UNCHANGED ctOthers
  /\ ctMounted /\ phase = "calibration"
  /\ phase' = "testing"
  /\ trialIndex' = 0
  /\ history' = <<>>
  /\ staircaseLevel' = startTestLevel(staircaseLevel)
  /\ ctEvent' = "startTest"
  /\ UNCHANGED <<ctMounted, rngSeed, currentAnswer, showResult, finishTimers,
                 contrastResults, retries>>

\* onChange of the answer input
SetCurrentAnswer(text) ==
  /\ UNCHANGED ctOthers
  /\ ctMounted /\ formShown
  /\ trialIndex < TOTAL_TRIALS + MaxExtraSubmits
  /\ currentAnswer' = text
  /\ ctEvent' = "type"
  /\ UNCHANGED <<ctMounted, rngSeed, phase, trialIndex, staircaseLevel, history,
                 showResult, finishTimers, contrastResults, retries>>

\* handleSubmit(): the form is submitted (button or Enter)
handleSubmit ==
  /\ UNCHANGED ctOthers
  /\ ctMounted /\ formShown
  /\ trialIndex < TOTAL_TRIALS + MaxExtraSubmits
  /\ LET ans    == trim(currentAnswer)
         plate  == currentPlate(trialIndex, staircaseLevel, rngSeed)
         record == [plate |-> plate.idx, contrast |-> plate.contrast,
                    correct |-> isCorrect(plate, ans), user |-> ans]
     IN  IF Len(ans) = 0
         THEN /\ ctEvent' = "submitEmpty"
              /\ UNCHANGED <<trialIndex, staircaseLevel, currentAnswer, history,
                             finishTimers>>
         ELSE /\ history' = Append(history, record)
              /\ staircaseLevel' = nextLevel(staircaseLevel, record.correct)
              /\ currentAnswer' = <<>>
              /\ trialIndex' = trialIndex + 1
              /\ finishTimers' = IF lastTrial(trialIndex)
                                 THEN Append(finishTimers, Append(history, record))
                                 ELSE finishTimers
              /\ ctEvent' = "submit"
  /\ UNCHANGED <<ctMounted, rngSeed, phase, showResult, contrastResults, retries>>

\* the 120 ms timer of handleSubmit fires: finishTest(allRecords)
FinishTimer ==
  /\ UNCHANGED ctOthers
  /\ finishTimers # <<>>
  /\ showResult' = TRUE
  /\ phase' = "done"
  /\ contrastResults' = Append(contrastResults, finalScore(Head(finishTimers)))
  /\ finishTimers' = Tail(finishTimers)
  /\ ctEvent' = "finish"
  /\ UNCHANGED <<ctMounted, rngSeed, trialIndex, staircaseLevel, currentAnswer,
                 history, retries>>

\* the Retry button of the done view
Retry ==
  /\ UNCHANGED ctOthers
  /\ ctMounted /\ phase = "done" /\ showResult
  /\ retries < MaxRetries
  /\ phase' = "calibration"
  /\ showResult' = FALSE
  /\ trialIndex' = 0
  /\ history' = <<>>
  /\ currentAnswer' = <<>>
  /\ retries' = retries + 1
  /\ ctEvent' = "retry"
  /\ UNCHANGED <<ctMounted, rngSeed, staircaseLevel, finishTimers, contrastResults>>

CtNext ==
  \/ \E seed \in Seeds : CtMount(seed)
  \/ CtStartTest
  \/ \E text \in TypedAnswers(currentPlate(trialIndex, staircaseLevel, rngSeed)) :
        SetCurrentAnswer(text)
  \/ handleSubmit
  \/ FinishTimer

\* texts typed in a run that is followed over Retry: the label of the plate
\* and a wrong text
RetryAnswers(plate) == {plateLabel(plate), <<"x">>}

\* the run begun after Retry is followed through its first submissions
followed == retries = 0 \/ trialIndex < MaxRetrySubmits

RetryNext ==
  \/ \E seed \in Seeds : CtMount(seed)
  \/ CtStartTest
  \/ /\ followed
     /\ \E text \in RetryAnswers(currentPlate(trialIndex, staircaseLevel, rngSeed)) :
           SetCurrentAnswer(text)
  \/ followed /\ handleSubmit
  \/ FinishTimer
  \/ Retry

-----------------------------------------------------------------------------
\* IrisTracker.  Landmark coordinates are in thousandths of the frame size.

DX_THRESHOLD == 35
DY_THRESHOLD == 30
MIN_DETECTIONS == 8
CALIB_DURATION_FRAMES == 40

\* the landmarks of one eye: seven points around its centre
eyeRing(cx, cy) ==
  << [x |-> cx - 30, y |-> cy],      [x |-> cx + 30, y |-> cy],
     [x |-> cx,      y |-> cy - 12], [x |-> cx - 15, y |-> cy - 6],
     [x |-> cx + 15, y |-> cy - 6],  [x |-> cx - 20, y |-> cy + 12],
     [x |-> cx + 20, y |-> cy + 12] >>

\* results.multiFaceLandmarks of a frame: no face, or the two eye groups of a
\* face whose eyes are shifted by (dx, dy) from the middle of the picture
NoFace == [faces |-> 0, leftEye |-> <<>>, rightEye |-> <<>>]
Face(dx, dy) ==
  [faces |-> 1, leftEye |-> eyeRing(400 + dx, 450 + dy),
   rightEye |-> eyeRing(600 + dx, 450 + dy)]

\* the frames the landmark source delivers: no face, looking at the centre,
\* looking left and up, looking right and down (each by exactly the thresholds)
Frames ==
  {NoFace, Face(0, 0), Face(-DX_THRESHOLD, -DY_THRESHOLD),
   Face(DX_THRESHOLD, DY_THRESHOLD)}

RECURSIVE SumX(_)
SumX(pts) == IF pts = <<>> THEN 0 ELSE Head(pts).x + SumX(Tail(pts))

RECURSIVE SumY(_)
SumY(pts) == IF pts = <<>> THEN 0 ELSE Head(pts).y + SumY(Tail(pts))

\* eyeCentroid(indices)
eyeCentroid(pts) == [x |-> SumX(pts) \div Len(pts), y |-> SumY(pts) \div Len(pts)]

\* the test that sends a frame into the calibration branch of onResults
inCalibration(base, calib) == base = <<>> /\ calib < CALIB_DURATION_FRAMES

\* the running average of the calibration branch
runningAverage(avg, n, v) == (avg * n + v) \div (n + 1)

\* the calibration branch of onResults: the baseline after the frame
calibrate(base, calib, leftC, rightC) ==
  LET b0 == IF base = <<>>
            THEN [lx |-> leftC.x, ly |-> leftC.y, rx |-> rightC.x, ry |-> rightC.y]
            ELSE base[1]
  IN  << [lx |-> runningAverage(b0.lx, calib, leftC.x),
          ly |-> runningAverage(b0.ly, calib, leftC.y),
          rx |-> runningAverage(b0.rx, calib, rightC.x),
          ry |-> runningAverage(b0.ry, calib, rightC.y)] >>

\* a tracking branch whose comparisons with the thresholds are strict
countDetectionsStrict(d, b, leftC, rightC) ==
  LET dx2 == (leftC.x - b.lx) + (rightC.x - b.rx)
      dy2 == (leftC.y - b.ly) + (rightC.y - b.ry)
  IN  [left  |-> IF dx2 < -(2 * DX_THRESHOLD) THEN d.left + 1 ELSE d.left,
       right |-> IF dx2 > 2 * DX_THRESHOLD THEN d.right + 1 ELSE d.right,
       up    |-> IF dy2 < -(2 * DY_THRESHOLD) THEN d.up + 1 ELSE d.up,
       down  |-> IF dy2 > 2 * DY_THRESHOLD THEN d.down + 1 ELSE d.down]

\* the tracking branch of onResults: the counters after the frame; dx and dy
\* are compared doubled, so that halving the sum of two deltas stays exact
countDetections(d, b, leftC, rightC) ==
  LET dx2 == (leftC.x - b.lx) + (rightC.x - b.rx)
      dy2 == (leftC.y - b.ly) + (rightC.y - b.ry)
  IN  [left  |-> IF dx2 <= -(2 * DX_THRESHOLD) THEN d.left + 1 ELSE d.left,
       right |-> IF dx2 >= 2 * DX_THRESHOLD THEN d.right + 1 ELSE d.right,
       up    |-> IF dy2 <= -(2 * DY_THRESHOLD) THEN d.up + 1 ELSE d.up,
       down  |-> IF dy2 >= 2 * DY_THRESHOLD THEN d.down + 1 ELSE d.down]

\* finishAndCleanup(): "evaluate detections", the summary passed to onComplete
finishSummary(d) ==
  LET leftOK  == d.left >= MIN_DETECTIONS
      rightOK == d.right >= MIN_DETECTIONS
      upOK    == d.up >= MIN_DETECTIONS
      downOK  == d.down >= MIN_DETECTIONS
      allOK   == leftOK /\ rightOK /\ upOK /\ downOK
  IN  [left |-> leftOK, right |-> rightOK, up |-> upOK, down |-> downOK,
       verdict |-> IF allOK THEN "normal" ELSE "abnormal"]

\* a Stop handler that wants more than MIN_DETECTIONS frames
stopSummaryStrict(d) ==
  LET leftOK  == d.left > MIN_DETECTIONS
      rightOK == d.right > MIN_DETECTIONS
      upOK    == d.up > MIN_DETECTIONS
      downOK  == d.down > MIN_DETECTIONS
      allOK   == leftOK /\ rightOK /\ upOK /\ downOK
  IN  [left |-> leftOK, right |-> rightOK, up |-> upOK, down |-> downOK,
       verdict |-> IF allOK THEN "normal" ELSE "abnormal"]

\* the Stop button: the summary it passes to onComplete
stopSummary(d) ==
  LET leftOK  == d.left >= MIN_DETECTIONS
      rightOK == d.right >= MIN_DETECTIONS
      upOK    == d.up >= MIN_DETECTIONS
      downOK  == d.down >= MIN_DETECTIONS
      allOK   == leftOK /\ rightOK /\ upOK /\ downOK
  IN  [left |-> leftOK, right |-> rightOK, up |-> upOK, down |-> downOK,
       verdict |-> IF allOK THEN "normal" ELSE "abnormal"]

ZeroDetections == [left |-> 0, right |-> 0, up |-> 0, down |-> 0]

\* the sums of the eye centroids of no frame, and of one frame more
ZeroSum == [lx |-> 0, ly |-> 0, rx |-> 0, ry |-> 0]
addCentroids(sum, leftC, rightC) ==
  [lx |-> sum.lx + leftC.x, ly |-> sum.ly + leftC.y,
   rx |-> sum.rx + rightC.x, ry |-> sum.ry + rightC.y]

\* the closure of an effect run that has just called start()
NewEffect ==
  [pc |-> "loading", isMounted |-> TRUE, stream |-> "none", stopTimer |-> "none",
   faceMesh |-> "none", loop |-> FALSE]

\* the cleanup the effect returns, run for closure cur (0: a run that never
\* started) with srcObject vsrc: the closures afterwards
cleanupEffects(effs, cur, vsrc) ==
  [i \in DOMAIN effs |->
     LET e  == effs[i]
         e1 == IF i = cur
               THEN [e EXCEPT !.isMounted = FALSE, !.loop = FALSE,
                       !.stopTimer = IF @ = "pending" THEN "cleared" ELSE @,
                       !.faceMesh = IF @ = "open" THEN "closed" ELSE @]
               ELSE e
     IN  IF i = vsrc THEN [e1 EXCEPT !.stream = "stopped"] ELSE e1]

\* setRunning(FALSE) once committed: when running changes the effect in force
\* is cleaned up and the next run of the effect does not start
stopRunning(effs) ==
  IF running THEN cleanupEffects(effs, curEffect, videoSrc) ELSE effs

\* the refs and state of a tracker instance as created
ItFresh ==
  /\ running = FALSE
  /\ detections = ZeroDetections
  /\ baseline = <<>>
  /\ calibFrames = 0
  /\ frameCount = 0
  /\ effects = <<>>
  /\ curEffect = 0
  /\ videoSrc = 0
  /\ gazeResults = <<>>
  /\ faceFrames = 0
  /\ calibSum = ZeroSum
  /\ completions = 0
  /\ itEvent = "init"

ItInit == itMounted = TRUE /\ ItFresh

\* the Start Eye Test button: resets the counters and sets running, so the
\* effect is cleaned up and run again, and this run calls start()
StartClick(maxEffects) ==
  /\ UNCHANGED itOthers
  /\ itMounted /\ ~running
  /\ Len(effects) < maxEffects
  /\ detections' = ZeroDetections
  /\ baseline' = <<>>
  /\ frameCount' = 0
  /\ running' = TRUE
  /\ effects' = Append(cleanupEffects(effects, curEffect, videoSrc), NewEffect)
  /\ curEffect' = Len(effects) + 1
  /\ videoSrc' = 0
  /\ completions' = 0
  /\ itEvent' = "startClick"
  /\ UNCHANGED <<itMounted, calibFrames, gazeResults, faceFrames, calibSum>>

\* the Stop button: setRunning(false) and onComplete with the current counts
StopClick ==
  /\ UNCHANGED itOthers
  /\ itMounted /\ running
  /\ running' = FALSE
  /\ effects' = stopRunning(effects)
  /\ curEffect' = 0
  /\ videoSrc' = 0
  /\ gazeResults' = Append(gazeResults, stopSummary(detections))
  /\ completions' = completions + 1
  /\ itEvent' = "stop"
  /\ UNCHANGED <<itMounted, detections, baseline, calibFrames, frameCount,
                 faceFrames, calibSum>>

\* start(): loadScriptOnce resolved and window.FaceMesh exists; getUserMedia
\* is called
ScriptLoaded(i) ==
  /\ UNCHANGED itOthers
  /\ effects[i].pc = "loading"
  /\ effects' = [effects EXCEPT ![i].pc = "camera"]
  /\ itEvent' = "scriptLoaded"
  /\ UNCHANGED <<itMounted, running, detections, baseline, calibFrames,
                 frameCount, curEffect, videoSrc, gazeResults, faceFrames, calibSum,
                 completions>>

\* start(): loadScriptOnce resolved but window.FaceMesh is missing: return
FaceMeshUnavailable(i) ==
  /\ UNCHANGED itOthers
  /\ effects[i].pc = "loading"
  /\ effects' = [effects EXCEPT ![i].pc = "ended"]
  /\ itEvent' = "faceMeshUnavailable"
  /\ UNCHANGED <<itMounted, running, detections, baseline, calibFrames,
                 frameCount, curEffect, videoSrc, gazeResults, faceFrames, calibSum,
                 completions>>

\* loadScriptOnce: every start() awaits the one script element, so the script
\* can still fail to load only if no start() has got past it
scriptUndecided ==
  \A j \in DOMAIN effects : effects[j].pc \notin {"camera", "playing", "started"}

\* start(): an awaited step threw (script load, getUserMedia or play): the
\* catch block stops the closure's stream and calls setRunning(false)
StartFailed(i) ==
  /\ UNCHANGED itOthers
  /\ effects[i].pc \in {"loading", "camera", "playing"}
  /\ effects[i].pc = "loading" => scriptUndecided
  /\ running' = FALSE
  /\ effects' = [stopRunning(effects) EXCEPT
                   ![i].pc = "ended",
                   ![i].stream = IF effects[i].stream = "none" THEN "none" ELSE "stopped"]
  /\ curEffect' = IF running THEN 0 ELSE curEffect
  /\ videoSrc' = IF running THEN 0 ELSE videoSrc
  /\ itEvent' = "startFailed"
  /\ UNCHANGED <<itMounted, detections, baseline, calibFrames, frameCount,
                 gazeResults, faceFrames, calibSum, completions>>

\* start(): getUserMedia resolved with a stream; unless the closure was cleaned
\* up meanwhile the stream becomes the video's srcObject and play() is called
CameraGranted(i) ==
  /\ UNCHANGED itOthers
  /\ effects[i].pc = "camera"
  /\ IF ~effects[i].isMounted \/ ~itMounted
     THEN /\ effects' = [effects EXCEPT ![i].pc = "ended", ![i].stream = "live"]
          /\ UNCHANGED videoSrc
     ELSE /\ effects' = [effects EXCEPT ![i].pc = "playing", ![i].stream = "live"]
          /\ videoSrc' = i
  /\ itEvent' = "cameraGranted"
  /\ UNCHANGED <<itMounted, running, detections, baseline, calibFrames,
                 frameCount, curEffect, gazeResults, faceFrames, calibSum, completions>>

\* start(): play() resolved: FaceMesh is created, the refs are reset, the frame
\* loop and the duration timer are started, and setRunning(true) is called.
\* process() returns at once when videoRef.current is null, and setRunning has
\* no effect on an unmounted component
PlayResolved(i, maxEffects) ==
  /\ UNCHANGED itOthers
  /\ effects[i].pc = "playing"
  /\ running \/ ~itMounted \/ Len(effects) < maxEffects
  /\ baseline' = <<>>
  /\ calibFrames' = 0
  /\ frameCount' = 0
  /\ detections' = ZeroDetections
  /\ faceFrames' = 0
  /\ calibSum' = ZeroSum
  /\ running' = itMounted
  /\ LET effs1 == [effects EXCEPT ![i].pc = "started", ![i].faceMesh = "open",
                                  ![i].loop = itMounted, ![i].stopTimer = "pending"]
     IN  IF running \/ ~itMounted
         THEN /\ effects' = effs1
              /\ UNCHANGED <<curEffect, videoSrc>>
         ELSE /\ effects' = Append(cleanupEffects(effs1, curEffect, videoSrc), NewEffect)
              /\ curEffect' = Len(effects) + 1
              /\ videoSrc' = 0
  /\ itEvent' = "playResolved"
  /\ UNCHANGED <<itMounted, gazeResults, completions>>

\* a no-face branch that counts the frame towards calibration
noFaceBranchCalibrating ==
  /\ itEvent' = "noFace"
  /\ calibFrames' = calibFrames + 1
  /\ UNCHANGED <<detections, baseline, faceFrames, calibSum>>

\* onResults without landmarks: the overlay is drawn and the callback returns
noFaceBranch ==
  /\ itEvent' = "noFace"
  /\ UNCHANGED <<detections, baseline, calibFrames, faceFrames, calibSum>>

\* one turn of the frame loop: faceMesh.send and the onResults callback
onResults(i, frame, maxFrames) ==
  /\ UNCHANGED itOthers
  /\ effects[i].loop
  /\ frameCount < maxFrames
  /\ IF ~effects[i].isMounted \/ ~itMounted
     THEN /\ itEvent' = "frameIgnored"
          /\ UNCHANGED <<detections, baseline, calibFrames, frameCount, faceFrames, calibSum>>
     ELSE /\ frameCount' = frameCount + 1
          /\ IF frame.faces = 0
             THEN noFaceBranch
             ELSE LET leftC  == eyeCentroid(frame.leftEye)
                      rightC == eyeCentroid(frame.rightEye)
                  IN  /\ faceFrames' = faceFrames + 1
                      /\ calibSum' = IF faceFrames < CALIB_DURATION_FRAMES
                                     THEN addCentroids(calibSum, leftC, rightC)
                                     ELSE calibSum
                      /\ IF inCalibration(baseline, calibFrames)
                         THEN /\ baseline' = calibrate(baseline, calibFrames, leftC, rightC)
                              /\ calibFrames' = calibFrames + 1
                              /\ itEvent' = "calibrated"
                              /\ UNCHANGED detections
                         ELSE LET b == IF baseline = <<>>
                                       THEN [lx |-> leftC.x, ly |-> leftC.y,
                                             rx |-> rightC.x, ry |-> rightC.y]
                                       ELSE baseline[1]
                              IN  /\ baseline' = <<b>>
                                  /\ detections' = countDetections(detections, b, leftC, rightC)
                                  /\ itEvent' = "tracked"
                                  /\ UNCHANGED calibFrames
  /\ UNCHANGED <<itMounted, running, effects, curEffect, videoSrc, gazeResults,
                 completions>>

\* the duration timer set by start() fires: finishAndCleanup()
StopTimer(i) ==
  /\ UNCHANGED itOthers
  /\ effects[i].stopTimer = "pending"
  /\ running' = FALSE
  /\ effects' = [stopRunning([effects EXCEPT
                    ![i].loop = FALSE,
                    ![i].stream = IF @ = "none" THEN "none" ELSE "stopped"])
                 EXCEPT ![i].stopTimer = "fired"]
  /\ curEffect' = IF running THEN 0 ELSE curEffect
  /\ videoSrc' = IF running THEN 0 ELSE videoSrc
  /\ gazeResults' = Append(gazeResults, finishSummary(detections))
  /\ completions' = completions + 1
  /\ itEvent' = "timeout"
  /\ UNCHANGED <<itMounted, detections, baseline, calibFrames, frameCount,
                 faceFrames, calibSum>>

ItNext ==
  \/ StartClick(MaxEffects)
  \/ StopClick
  \/ \E i \in DOMAIN effects : ScriptLoaded(i)
  \/ \E i \in DOMAIN effects : FaceMeshUnavailable(i)
  \/ \E i \in DOMAIN effects : StartFailed(i)
  \/ \E i \in DOMAIN effects : CameraGranted(i)
  \/ \E i \in DOMAIN effects : PlayResolved(i, MaxEffects)
  \/ \E i \in DOMAIN effects, frame \in Frames : onResults(i, frame, MaxFrames)
  \/ \E i \in DOMAIN effects : StopTimer(i)

\* the frames of a session followed through its calibration window: no face,
\* looking at the centre, looking right and down
WindowFrames == {NoFace, Face(0, 0), Face(DX_THRESHOLD, DY_THRESHOLD)}

CalibNext ==
  \/ StartClick(MaxEffects)
  \/ StopClick
  \/ \E i \in DOMAIN effects : ScriptLoaded(i)
  \/ \E i \in DOMAIN effects : FaceMeshUnavailable(i)
  \/ \E i \in DOMAIN effects : StartFailed(i)
  \/ \E i \in DOMAIN effects : CameraGranted(i)
  \/ \E i \in DOMAIN effects : PlayResolved(i, MaxEffects)
  \/ \E i \in DOMAIN effects, frame \in WindowFrames :
        onResults(i, frame, MaxCalibFrames)
  \/ \E i \in DOMAIN effects : StopTimer(i)

-----------------------------------------------------------------------------
\* IrisTracker inside VisualSimulator: leaving step 5 and the camera toggle

\* the page leaves step 5 (Back or Next): the tracker is unmounted. The video's
\* ref is detached before the effect's cleanup runs, so the cleanup finds
\* videoRef.current null and stops no stream; the component's state is gone
unmountTracker ==
  /\ itMounted
  /\ itMounted' = FALSE
  /\ running' = FALSE
  /\ effects' = cleanupEffects(effects, curEffect, 0)
  /\ curEffect' = 0
  /\ videoSrc' = 0
  /\ itEvent' = "unmount"
  /\ UNCHANGED <<detections, baseline, calibFrames, frameCount, gazeResults,
                 faceFrames, calibSum, completions>>

\* the tracker is unmounted, whichever step the page goes to
ItUnmount == UNCHANGED itOthers /\ unmountTracker

\* the page rendered again: the onComplete it passes is a new function, so the
\* tracker's effect is cleaned up and run again, and the new run calls start()
\* when running is set
RerunEffect ==
  IF itMounted
  THEN /\ effects' = IF running
                     THEN Append(cleanupEffects(effects, curEffect, videoSrc), NewEffect)
                     ELSE cleanupEffects(effects, curEffect, videoSrc)
       /\ curEffect' = IF running THEN Len(effects) + 1 ELSE 0
       /\ videoSrc' = 0
  ELSE UNCHANGED <<effects, curEffect, videoSrc>>

\* whether a further run of the tracker's effect fits the bound
canRerun == ~(itMounted /\ running) \/ Len(effects) < MaxTrackerEffects

NewPageEffect == [pc |-> "camera", mounted |-> TRUE, stream |-> "none"]

\* the cleanup the camera effect returns: mounted = false
pageCleanup(effs) == [j \in DOMAIN effs |-> [effs[j] EXCEPT !.mounted = FALSE]]

PgInit ==
  /\ cameraOn = FALSE
  /\ cameraError = FALSE
  /\ pageEffects = <<>>
  /\ streamRef = 0

\* the Turn On / Turn Off Camera button: cameraOn flips and the camera effect
\* runs again; the page's video ref is attached to no element
PageCameraToggle ==
  /\ UNCHANGED pgOthers
  /\ canRerun
  /\ cameraOn \/ Len(pageEffects) < MaxPageStarts
  /\ cameraOn' = ~cameraOn
  /\ IF ~cameraOn
     THEN /\ pageEffects' = IF streamRef = 0
                            THEN Append(pageCleanup(pageEffects), NewPageEffect)
                            ELSE pageCleanup(pageEffects)
          /\ UNCHANGED streamRef
     ELSE /\ pageEffects' = [j \in DOMAIN pageEffects |->
                               IF j = streamRef
                               THEN [pageEffects[j] EXCEPT !.mounted = FALSE,
                                                           !.stream = "stopped"]
                               ELSE [pageEffects[j] EXCEPT !.mounted = FALSE]]
          /\ streamRef' = 0
  /\ RerunEffect
  /\ itEvent' = "cameraToggle"
  /\ UNCHANGED <<cameraError, itMounted, running, detections, baseline,
                 calibFrames, frameCount, gazeResults, faceFrames, calibSum, completions>>

\* the page's getUserMedia resolved: unless the effect was cleaned up meanwhile
\* the stream is kept in streamRef and the error message is cleared
PageCameraGranted(j) ==
  /\ UNCHANGED pgOthers
  /\ pageEffects[j].pc = "camera"
  /\ pageEffects' = [pageEffects EXCEPT ![j].pc = "ended", ![j].stream = "live"]
  /\ IF ~pageEffects[j].mounted
     THEN UNCHANGED <<streamRef, cameraError, effects, curEffect, videoSrc>>
     ELSE /\ streamRef' = j
          /\ cameraError' = FALSE
          /\ IF cameraError
             THEN canRerun /\ RerunEffect
             ELSE UNCHANGED <<effects, curEffect, videoSrc>>
  /\ itEvent' = "pageCameraGranted"
  /\ UNCHANGED <<cameraOn, itMounted, running, detections, baseline,
                 calibFrames, frameCount, gazeResults, faceFrames, calibSum, completions>>

\* the page's getUserMedia rejected: the catch block sets the error message
PageCameraDenied(j) ==
  /\ UNCHANGED pgOthers
  /\ pageEffects[j].pc = "camera"
  /\ pageEffects' = [pageEffects EXCEPT ![j].pc = "ended"]
  /\ cameraError' = TRUE
  /\ IF ~cameraError
     THEN canRerun /\ RerunEffect
     ELSE UNCHANGED <<effects, curEffect, videoSrc>>
  /\ itEvent' = "pageCameraDenied"
  /\ UNCHANGED <<cameraOn, streamRef, itMounted, running, detections, baseline,
                 calibFrames, frameCount, gazeResults, faceFrames, calibSum, completions>>

TrackerNext ==
  \/ StartClick(MaxTrackerEffects)
  \/ StopClick
  \/ \E i \in DOMAIN effects : ScriptLoaded(i)
  \/ \E i \in DOMAIN effects : FaceMeshUnavailable(i)
  \/ \E i \in DOMAIN effects : StartFailed(i)
  \/ \E i \in DOMAIN effects : CameraGranted(i)
  \/ \E i \in DOMAIN effects : PlayResolved(i, MaxTrackerEffects)
  \/ \E i \in DOMAIN effects, frame \in Frames : onResults(i, frame, MaxTrackerFrames)
  \/ \E i \in DOMAIN effects : StopTimer(i)
  \/ ItUnmount
  \/ PageCameraToggle
  \/ \E j \in DOMAIN pageEffects : PageCameraGranted(j)
  \/ \E j \in DOMAIN pageEffects : PageCameraDenied(j)

-----------------------------------------------------------------------------
\* VisualSimulator: the steps of the page and the tracker it renders at step 5

NavInit == step = 1

\* useState eyeAssessment: "Not started" until onComplete is called, which
\* sets "Complete"; nothing sets it back
eyeAssessment == IF gazeResults = <<>> THEN "Not started" ELSE "Complete"

\* a Next button that is never disabled
nextEnabledAlways(s) == s \in 1..5

\* steps 1 to 5 render a button whose onClick is nextStep; the one of step 5
\* is disabled until eyeAssessment is "Complete"
nextEnabled(s) == s \in 1..4 \/ (s = 5 /\ eyeAssessment = "Complete")

\* steps 2 to 5 render a Back button whose onClick is prevStep
prevEnabled(s) == s \in 2..5

\* the tracker instance of the first visit to step 5 is the one followed: on
\* later visits the step is shown without an instance
firstVisit == ~itMounted /\ itEvent = "init"

\* step 5 is rendered: IrisTracker is mounted
mountTracker ==
  /\ itMounted' = TRUE
  /\ itEvent' = "mount"
  /\ UNCHANGED <<running, detections, baseline, calibFrames, frameCount, effects,
                 curEffect, videoSrc, gazeResults, faceFrames, calibSum,
                 completions>>

\* nextStep()
nextStep ==
  /\ UNCHANGED navOthers
  /\ nextEnabled(step)
  /\ step' = step + 1
  /\ IF step = 4 /\ firstVisit
     THEN mountTracker
     ELSE IF step = 5 /\ itMounted THEN unmountTracker ELSE UNCHANGED itVars

\* prevStep()
prevStep ==
  /\ UNCHANGED navOthers
  /\ prevEnabled(step)
  /\ step' = step - 1
  /\ IF step = 5 /\ itMounted THEN unmountTracker ELSE UNCHANGED itVars

\* the Restart Simulation button of the summary
restartSimulation ==
  /\ UNCHANGED navOthers
  /\ step = 6
  /\ step' = 1
  /\ UNCHANGED itVars

PageNext ==
  \/ nextStep
  \/ prevStep
  \/ restartSimulation
  \/ StartClick(MaxEffects)
  \/ StopClick
  \/ \E i \in DOMAIN effects : ScriptLoaded(i)
  \/ \E i \in DOMAIN effects : FaceMeshUnavailable(i)
  \/ \E i \in DOMAIN effects : StartFailed(i)
  \/ \E i \in DOMAIN effects : CameraGranted(i)
  \/ \E i \in DOMAIN effects : PlayResolved(i, MaxEffects)
  \/ \E i \in DOMAIN effects, frame \in Frames : onResults(i, frame, MaxTrackerFrames)
  \/ \E i \in DOMAIN effects : StopTimer(i)

-----------------------------------------------------------------------------
\* finishTest as a function of (misses, reaction times, maxReaction)

\* reaction-time lists whose means lie on, next to and between the rounding
\* boundaries 300 + 200k of the score, each with the maxReaction it is scored with
ProbeInputs ==
  {<<rts, DefaultReaction>> :
      rts \in {<<0>>, <<299>>, <<300>>, <<300, 301>>, <<500, 500, 501>>,
               <<300, 400, 500, 600>>, <<2000>>, <<5000>>}}
    \cup {<<<<>>, mr>> : mr \in {MinReaction, DefaultReaction, MaxReactionLimit}}

ProbeInit ==
  /\ probe = finishTestResult(<<>>, 0, DefaultReaction)
  /\ probePrev = finishTestResult(<<>>, 0, DefaultReaction)

\* finishTest is run on a chosen miss count and list of reaction times
ProbeFinish(m, rts, mr) ==
  /\ UNCHANGED probeOthers
  /\ probe' = finishTestResult(rts, m, mr)
  /\ probePrev' = probe

ProbeNext ==
  \E m \in 0..MaxTrials, in \in ProbeInputs : ProbeFinish(m, in[1], in[2])

-----------------------------------------------------------------------------
Init == FtInit /\ CtInit /\ ItInit /\ PgInit /\ NavInit /\ ProbeInit

\* the page as constructed: step 1 is shown and no tracker is mounted yet
PageInit ==
  /\ FtInit /\ CtInit /\ PgInit /\ NavInit /\ ProbeInit
  /\ itMounted = FALSE /\ ItFresh


\* the field test run by events and timers
SpecField == Init /\ [][FtNext]_vars
\* the field test whose pending timers eventually fire and whose clock runs
SpecFieldLive ==
  /\ Init /\ [][FtNext]_vars
  /\ WF_vars(RevealTimer) /\ WF_vars(Tick) /\ WF_vars(MissTimer) /\ WF_vars(PauseTimer)
\* the contrast test run by submissions and its finish timer
SpecContrast == Init /\ [][CtNext]_vars
\* the contrast test run again after Retry
SpecRetry == Init /\ [][RetryNext]_vars
\* the gaze tracker run by clicks, start-up steps, frames and its timer
SpecGaze == Init /\ [][ItNext]_vars
\* the gaze tracker followed through the 40 frames of its calibration window
SpecCalib == Init /\ [][CalibNext]_vars
\* the gaze tracker inside its page: unmounting and the page's camera toggle
SpecTracker == Init /\ [][TrackerNext]_vars
\* an awaited step of some start() settles, one way or the other
StartupStep ==
  \E i \in DOMAIN effects :
    \/ ScriptLoaded(i) \/ FaceMeshUnavailable(i) \/ StartFailed(i)
    \/ CameraGranted(i) \/ PlayResolved(i, MaxTrackerEffects)

\* the same, where pending duration timers eventually fire and awaited
\* start-up steps eventually settle
SpecTrackerLive ==
  /\ Init /\ [][TrackerNext]_vars
  /\ WF_vars(\E i \in DOMAIN effects : StopTimer(i))
  /\ WF_vars(StartupStep)
\* the page stepped through by Next, Back and Restart, with its tracker
SpecPage == PageInit /\ [][PageNext]_vars
\* the field-test score as a function of its inputs
SpecScore == Init /\ [][ProbeNext]_vars

-----------------------------------------------------------------------------
\* Claims about the field test

\* C4: a started field-test session calls onResult at most once, and only
\* after exactly totalTrials trials have ended.
C4_ResultOnceAfterAllTrials ==
  /\ Len(fieldResults) <= 1
  /\ fieldResults # <<>> => started /\ 2 * completedTrials = totalTrials

C4_Witness ==
  /\ Len(fieldResults) = 1
  /\ missesRef >= 1
  /\ Len(reactionTimesRef) >= 1

\* C5: the first of {response, miss-timer expiry} wins: a response outside an
\* open stimulus window changes nothing (no reaction time, no miss, no trial
\* advance, no timer), and a miss or a reaction time is only recorded for a
\* stimulus that is still unanswered.
C5_FirstEventWins ==
  [][ /\ (~windowOpen /\ ftEvent' \in {"clickIgnored", "response"}) =>
           UNCHANGED <<reactionTimesRef, missesRef, trialRef, timerRef, pending,
                       dotVisibleRef, done, fieldResults, completedTrials>>
      /\ (missesRef' # missesRef => windowOpen)
      /\ (reactionTimesRef' # reactionTimesRef => windowOpen)
    ]_vars

\* a click that came after the miss timer closed a trial, and was ignored
C5_Witness ==
  /\ ftEvent = "clickIgnored"
  /\ started /\ ~done
  /\ missesRef >= 1
  /\ ~windowOpen

\* the nearest integer to num/den, halves up, stated by its defining inequality
NearestInt(num, den) ==
  CHOOSE k \in -100..100 : 2 * k * den - den <= 2 * num /\ 2 * num < 2 * k * den + den

\* C8: the emitted score is clamp(10 - m - round((avg - 200)/200), 1, 10) with
\* avg = mean(R), or maxReactionMs when R is empty; m=2, R=[300,400,500,600]
\* gives 7 and m=3, R=[], maxReactionMs=2000 gives 1.
C8_ScoreFormula ==
  /\ fieldResults # <<>> =>
       LET r   == fieldResults[1]
           n   == Len(reactionTimesRef)
           sum == SumSeq(reactionTimesRef)
           rnd == IF n > 0 THEN NearestInt(sum - 200 * n, 200 * n)
                           ELSE NearestInt(maxReactionRef - 200, 200)
           raw == 10 - missesRef - rnd
       IN  /\ r.rts = reactionTimesRef
           /\ r.misses = missesRef
           /\ r.score = IF raw < 1 THEN 1 ELSE IF raw > 10 THEN 10 ELSE raw
           /\ n > 0 => r.avgNum = sum /\ r.avgDen = n
           /\ n = 0 => r.avgNum = maxReactionRef /\ r.avgDen = 1
  /\ finishTestResult(<<300, 400, 500, 600>>, 2, 2000).score = 7
  /\ finishTestResult(<<>>, 3, 2000).score = 1

C8_Witness ==
  /\ fieldResults # <<>>
  /\ Len(fieldResults[1].rts) >= 2
  /\ fieldResults[1].misses >= 1
  /\ fieldResults[1].score \in 2..9

\* C9: the score is within 1..10, does not increase when misses grow with avg
\* fixed, and does not increase when avg grows with misses fixed.
C9_ScoreBoundedMonotone ==
  /\ probe.score \in 1..10
  /\ (probePrev.avgNum * probe.avgDen = probe.avgNum * probePrev.avgDen
        /\ probePrev.misses <= probe.misses) => probe.score <= probePrev.score
  /\ (probePrev.misses = probe.misses
        /\ probePrev.avgNum * probe.avgDen <= probe.avgNum * probePrev.avgDen)
        => probe.score <= probePrev.score

C9_Witness ==
  /\ probePrev.misses < probe.misses
  /\ probePrev.avgNum * probe.avgDen < probe.avgNum * probePrev.avgDen
  /\ probe.avgDen = 3
  /\ probe.score < probePrev.score
  /\ probe.score > 1

\* C10: every completed trial is recorded as exactly one of a response or a
\* miss: misses + |reactionTimes| is the number of completed trials, and is
\* totalTrials in the emitted result.
C10_OneRecordPerTrial ==
  /\ missesRef + Len(reactionTimesRef) = completedTrials
  /\ fieldResults # <<>> =>
       2 * (fieldResults[1].misses + Len(fieldResults[1].rts)) = totalTrials

C10_Witness ==
  /\ started /\ ~done
  /\ completedTrials >= 2
  /\ missesRef >= 1
  /\ Len(reactionTimesRef) >= 1

-----------------------------------------------------------------------------
\* Claims about the contrast test

\* C1: every score the contrast test passes to onResult is within 1..10,
\* whatever the submissions and however they interleave with the finish timer.
C1_ContrastScoreInRange ==
  \A i \in 1..Len(contrastResults) : contrastResults[i] \in 1..10

\* C2: onResult is invoked exactly once per run, after the 9th accepted
\* submission, however submissions interleave with the 120 ms finish timer
\* (stated as what must never be seen: a second call, or a call before or
\* beyond the 9th accepted submission).
C2_ContrastResultOnce ==
  /\ Len(contrastResults) <= 1
  /\ contrastResults # <<>> => trialIndex = TOTAL_TRIALS

\* C6: the staircase level is always an integer in 0..8, and each accepted
\* submission moves it by +1 when correct and -1 when incorrect, except that
\* it stays 8 on a correct answer at 8 and stays 0 on an incorrect answer at 0.
C6_StaircaseStep ==
  /\ [](staircaseLevel \in 0..MaxLevel)
  /\ [][ /\ staircaseLevel' \in 0..8
         /\ trialIndex' = trialIndex + 1 =>
              LET correct == history'[Len(history')].correct
              IN  /\ Len(history') = Len(history) + 1
                  /\ (correct /\ staircaseLevel < 8) => staircaseLevel' = staircaseLevel + 1
                  /\ (correct /\ staircaseLevel = 8) => staircaseLevel' = 8
                  /\ (~correct /\ staircaseLevel > 0) => staircaseLevel' = staircaseLevel - 1
                  /\ (~correct /\ staircaseLevel = 0) => staircaseLevel' = 0
         /\ (trialIndex' = trialIndex /\ phase' = phase) =>
              staircaseLevel' = staircaseLevel
       ]_vars

\* level 0 after seven incorrect answers: 4, 3, 2, 1, 0, then three more at 0
C6_Witness ==
  /\ staircaseLevel = 0
  /\ trialIndex = 7
  /\ \A i \in 1..Len(history) : ~history[i].correct


-----------------------------------------------------------------------------
\* C3: the gaze tracker stays in calibration for a window of 40 face-bearing
\* frames: none of the first 40 face-bearing frames of a session increments a
\* detection counter, and classification begins only after the window closed.
C3_CalibrationWindow ==
  faceFrames <= 40 => detections = ZeroDetections

\* C7: at the end of a gaze session, by timeout or by the Stop button, the flag
\* of each direction is true iff its counter is at least 8, and the verdict is
\* "normal" iff all four flags are true and "abnormal" otherwise; an early stop
\* uses the counters so far, e.g. {10, 3, 9, 8} gives {T, F, T, T}, "abnormal".
C7_GazeFlags ==
  LET example  == [left |-> 10, right |-> 3, up |-> 9, down |-> 8]
      expected == [left |-> TRUE, right |-> FALSE, up |-> TRUE, down |-> TRUE,
                   verdict |-> "abnormal"]
  IN  /\ finishSummary(example) = expected
      /\ stopSummary(example) = expected
      /\ itEvent \in {"timeout", "stop"} =>
           LET r == gazeResults[Len(gazeResults)]
           IN  /\ r.left <=> detections.left >= 8
               /\ r.right <=> detections.right >= 8
               /\ r.up <=> detections.up >= 8
               /\ r.down <=> detections.down >= 8
               /\ r.verdict = "normal" <=> (r.left /\ r.right /\ r.up /\ r.down)
               /\ r.verdict \in {"normal", "abnormal"}

\* an early stop after left and up were seen 8 times and right fewer
C7_Witness ==
  /\ itEvent = "stop"
  /\ detections.left = 8 /\ detections.right \in 1..7
  /\ LET r == gazeResults[Len(gazeResults)]
     IN  r.left /\ r.up /\ ~r.right /\ r.verdict = "abnormal"

-----------------------------------------------------------------------------
\* C13: when the field test is unmounted in the middle of a session, all its
\* pending timers are cancelled: afterwards no trial advances, no miss is
\* recorded and no result of the abandoned session is passed to onResult.
C13_UnmountCancelsTimers ==
  /\ [](~ftMounted => pending = [miss |-> 0, pause |-> 0, reveal |-> 0])
  /\ [][ ~ftMounted =>
           /\ trialRef' = trialRef
           /\ missesRef' = missesRef
           /\ fieldResults' = fieldResults
       ]_vars

-----------------------------------------------------------------------------
\* the effective contrast (grating, number) or difficulty factor (noise) of
\* pool plate k at a staircase level; a lower value is harder to see
EffectiveValue(k, level) ==
  IF basePlates[k].type = "noise"
  THEN levelToDifficulty(level, basePlates[k].baseDifficulty)
  ELSE levelToContrast(level, basePlates[k].baseContrast)

\* C17: the staircase makes the test harder after a correct answer and easier
\* after an incorrect one: for every pool plate the effective value at the
\* level reached after a correct answer is <= its value at the previous level,
\* and after an incorrect answer >= its value at the previous level.
C17_StaircaseDirection ==
  [][ trialIndex' = trialIndex + 1 =>
        \A k \in 1..Len(basePlates) :
           IF history'[Len(history')].correct
           THEN EffectiveValue(k, staircaseLevel') <= EffectiveValue(k, staircaseLevel)
           ELSE EffectiveValue(k, staircaseLevel') >= EffectiveValue(k, staircaseLevel)
    ]_vars

\* C18: submitting an empty or whitespace-only answer changes nothing: trial
\* index, staircase level and history stay, no finish is scheduled and
\* onResult is not invoked.
C18_EmptySubmitIgnored ==
  [][ (/\ ctEvent' \in {"submit", "submitEmpty"}
       /\ \A i \in 1..Len(currentAnswer) : currentAnswer[i] = " ")
        => UNCHANGED <<trialIndex, staircaseLevel, history, finishTimers,
                       contrastResults, phase, showResult>>
    ]_vars

\* a whitespace-only answer was submitted in the middle of a run
C18_Witness ==
  /\ ctEvent = "submitEmpty"
  /\ currentAnswer = <<" ">>
  /\ trialIndex \in 1..(TOTAL_TRIALS - 1)

\* a history of n records of which the first c are correct
RecordsWithCorrect(c, n) ==
  [i \in 1..n |-> [plate |-> 1, contrast |-> 0, correct |-> i <= c, user |-> <<"x">>]]

\* the score finishTest gives to nine records of which c are correct
ScoreOfCount == [c \in 0..9 |-> finalScore(RecordsWithCorrect(c, 9))]

\* max(1, round((c / 9) * 9) + 1)
ExpectedContrastScore ==
  [c \in 0..9 |-> LET k == NearestInt(c * 9, 9) + 1 IN IF k < 1 THEN 1 ELSE k]

\* C19: for every correctCount in 0..9 the contrast score is
\* max(1, round((correctCount / 9) * 9) + 1), so 6 correct of 9 gives 7, and
\* the score is non-decreasing in correctCount.
C19_ContrastScoreFormula ==
  /\ ScoreOfCount = ExpectedContrastScore
  /\ ScoreOfCount[6] = 7
  /\ \A c, d \in 0..9 : c <= d => ScoreOfCount[c] <= ScoreOfCount[d]
  /\ contrastResults # <<>> =>
       contrastResults[1] =
         ExpectedContrastScore[Cardinality({i \in 1..9 : history[i].correct})]

\* a run of nine submissions with six correct answers, scored 7
C19_Witness ==
  /\ ctEvent = "finish"
  /\ Len(history) = 9
  /\ Cardinality({i \in 1..9 : history[i].correct}) = 6
  /\ contrastResults = <<7>>

\* the staircase level before trial n (1-based) of a run with the given
\* sequence of outcomes
RECURSIVE LevelBefore(_, _)
LevelBefore(outcomes, n) ==
  IF n = 1 THEN 4
  ELSE LET l == LevelBefore(outcomes, n - 1)
       IN  IF outcomes[n - 1] THEN (IF l < 8 THEN l + 1 ELSE 8)
                              ELSE (IF l > 0 THEN l - 1 ELSE 0)

\* C20: plate selection is a deterministic function of (trialIndex,
\* staircaseLevel, sessionSeed): the plates presented are determined by the
\* seed and the sequence of correct/incorrect outcomes alone, so two runs that
\* agree on these present the same plates, whatever the time and whatever was
\* typed.
C20_PlateSelectionDeterministic ==
  LET outcomes == [i \in 1..Len(history) |-> history[i].correct]
  IN  \A n \in 1..Len(history) :
         history[n].plate =
           (((n - 1) + LevelBefore(outcomes, n) + hash(rngSeed)) % 9) + 1

\* a run that has presented five plates after mixed outcomes, with the seed
\* whose hash is not a multiple of 9
C20_Witness ==
  /\ rngSeed = 1
  /\ Len(history) = 5
  /\ history[1].correct /\ ~history[2].correct /\ history[5].correct
  /\ history[1].plate # history[5].plate

-----------------------------------------------------------------------------
\* C11: for each session started by a click on Start, onComplete is called at
\* most once, by the duration timer or by Stop and never by both, whatever the
\* order of clicks, start-up steps, frames and the timer
C11_CompleteAtMostOnce == completions <= 1

\* C12: once the session started by the last click on Start has finished (an
\* onComplete was called for it), a press of Stop does not call onComplete
\* again
C12_StopIdempotent ==
  [][ (completions >= 1 /\ itEvent' = "stop") => gazeResults' = gazeResults ]_vars

\* closure i of the tracker has nothing left to do: start() has returned or
\* thrown, or it started and its duration timer is no longer pending
settled(i) ==
  \/ effects[i].pc = "ended"
  \/ effects[i].pc = "started" /\ effects[i].stopTimer # "pending"

\* C14: after a stop, a timeout or an unmount every camera stream the tracker
\* acquired has its tracks stopped, also when the stop or the unmount came
\* while start() was awaiting the script or the camera: a closure that was
\* cleaned up or whose session is over, and that has nothing left to do, holds
\* no live stream
C14_StreamsReleased ==
  \A i \in DOMAIN effects :
    (settled(i) /\ (~effects[i].isMounted \/ ~running)) => effects[i].stream # "live"

\* the live camera streams held by the tracker and by the page
liveTracker == {i \in DOMAIN effects : effects[i].stream = "live"}
livePage == {j \in DOMAIN pageEffects : pageEffects[j].stream = "live"}

\* C15: at most one camera stream is live at any time; the page's camera
\* toggle and the tracker never hold one each
C15_OneCameraHolder == Cardinality(liveTracker) + Cardinality(livePage) <= 1

\* C16: when start-up fails in the run of the effect in force (the script does
\* not load, window.FaceMesh is missing, or the camera is refused) the tracker
\* is idle again so that Start can be pressed, that run holds no live stream,
\* and onComplete is not called
C16_FailureReturnsToIdle ==
  [][ (itMounted /\ itEvent' \in {"startFailed", "faceMeshUnavailable"}
         /\ \E i \in DOMAIN effects :
              i = curEffect /\ effects[i].pc # "ended" /\ effects'[i].pc = "ended")
      => /\ ~running'
         /\ effects'[curEffect].stream # "live"
         /\ gazeResults' = gazeResults ]_vars


-----------------------------------------------------------------------------
\* C21: a gaze frame without a face leaves the calibration frame count, the
\* baseline and the four detection counters as they were and does not end the
\* session: running, the closures with their loop and timer, and the results
\* passed to onComplete are unchanged
C21_NoFaceFrameIgnored ==
  [][ itEvent' = "noFace" =>
        UNCHANGED <<calibFrames, baseline, detections, running, effects,
                    gazeResults>> ]_vars

\* a frame without a face arrived while tracking, after a detection was counted
C21_Witness ==
  /\ itEvent = "noFace"
  /\ running
  /\ baseline # <<>>
  /\ detections.right >= 1

-----------------------------------------------------------------------------
\* the face-bearing frames, and the baselines they calibrate
FaceFrames == {f \in Frames : f.faces = 1}
FrameBaseline(f) ==
  LET l == eyeCentroid(f.leftEye)
      r == eyeCentroid(f.rightEye)
  IN  [lx |-> l.x, ly |-> l.y, rx |-> r.x, ry |-> r.y]

\* the sum of the two eyes' centroid deltas from baseline b, i.e. twice their
\* mean (dx, dy), in thousandths
DeltaSum(b, f) ==
  LET l == eyeCentroid(f.leftEye)
      r == eyeCentroid(f.rightEye)
  IN  [x |-> (l.x - b.lx) + (r.x - b.rx), y |-> (l.y - b.ly) + (r.y - b.ry)]

\* counters d2 are counters d after a frame whose mean delta is half of s:
\* left is one more iff dx <= -0.035, right iff dx >= 0.035, up iff dy <= -0.03,
\* down iff dy >= 0.03, and a counter that is not incremented is unchanged
Classified(d, d2, s) ==
  /\ d2.left  = d.left  + (IF s.x <= -2 * 35 THEN 1 ELSE 0)
  /\ d2.right = d.right + (IF s.x >= 2 * 35 THEN 1 ELSE 0)
  /\ d2.up    = d.up    + (IF s.y <= -2 * 30 THEN 1 ELSE 0)
  /\ d2.down  = d.down  + (IF s.y >= 2 * 30 THEN 1 ELSE 0)

\* the tracking branch classifies every face frame against every baseline as
\* the thresholds say
ClassificationTable ==
  \A f0 \in FaceFrames, f \in FaceFrames :
    LET b == FrameBaseline(f0)
    IN  Classified(ZeroDetections,
                   countDetections(ZeroDetections, b, eyeCentroid(f.leftEye),
                                   eyeCentroid(f.rightEye)),
                   DeltaSum(b, f))

\* C22: while tracking, a face-bearing frame increments left iff dx <= -0.035,
\* right iff dx >= 0.035, up iff dy <= -0.03 and down iff dy >= 0.03, each by
\* exactly 1, (dx, dy) being the mean of the two eyes' centroid deltas from the
\* baseline; no frame increments both left and right, or both up and down
C22_DeltaClassification ==
  /\ [](ClassificationTable)
  /\ [][ itEvent' = "tracked" =>
           /\ \E f \in FaceFrames :
                Classified(detections, detections', DeltaSum(baseline'[1], f))
           /\ ~(detections'.left > detections.left /\ detections'.right > detections.right)
           /\ ~(detections'.up > detections.up /\ detections'.down > detections.down) ]_vars

\* frames looking left and up, then right and down of the baseline were counted
C22_Witness ==
  /\ itEvent = "tracked"
  /\ detections = [left |-> 1, right |-> 1, up |-> 1, down |-> 1]

-----------------------------------------------------------------------------
\* C23: within a gaze session each detection counter never decreases, and the
\* counters go back to zero only by a click on Start: no frame, no page render
\* and no other event lowers a counter
C23_CountersMonotone ==
  [][ itEvent' # "startClick" =>
        /\ detections'.left >= detections.left
        /\ detections'.right >= detections.right
        /\ detections'.up >= detections.up
        /\ detections'.down >= detections.down ]_vars

-----------------------------------------------------------------------------
\* C24: the gaze baseline is null until the calibration window of
\* CALIB_DURATION_FRAMES face-bearing frames has closed, and once it is set no
\* later frame changes any of its four components
C24_BaselineFixed ==
  /\ [](baseline # <<>> => faceFrames >= CALIB_DURATION_FRAMES)
  /\ [][ (baseline # <<>> /\ itEvent' \in {"noFace", "calibrated", "tracked", "frameIgnored"})
           => baseline' = baseline ]_vars

-----------------------------------------------------------------------------
\* C25: every started field-test session eventually finishes and calls
\* onResult, whether or not a response ever arrives, provided the pending
\* timers eventually fire and the component stays mounted
C25_FieldTestTerminates ==
  started ~> ((done /\ fieldResults # <<>>) \/ ~ftMounted)

\* a session ended with a result although no response ever arrived
C25_Witness ==
  /\ ftMounted /\ done
  /\ Len(fieldResults) = 1
  /\ reactionTimesRef = <<>>
  /\ missesRef >= MinTrials

-----------------------------------------------------------------------------
\* the run of the effect in force has started its session: play() resolved, the
\* frame loop and the duration timer were started
sessionStarted ==
  running /\ curEffect # 0 /\ effects[curEffect].pc = "started"

\* C26: once a gaze session has started, onComplete is eventually called when
\* the duration has elapsed, even if no frame ever shows a face and Stop is
\* never pressed, as long as the tracker stays mounted
C26_GazeSessionTerminates ==
  \A n \in 0..(2 * MaxTrackerEffects) :
    (sessionStarted /\ Len(gazeResults) = n) ~> (Len(gazeResults) > n \/ ~itMounted)

-----------------------------------------------------------------------------
\* C27: at most one field-test trial is active at a time: there is never more
\* than one pending miss timer, and the stimulus of a trial is revealed only
\* after every earlier trial has ended in a response or a miss, while no other
\* stimulus is awaiting its response
C27_OneActiveTrial ==
  /\ [](pending.miss <= 1)
  /\ [][ ftEvent' = "reveal" => (completedTrials = trialRef /\ ~windowOpen) ]_vars

\* the stimulus of the third trial is revealed after a response and a miss
C27_Witness ==
  /\ ftEvent = "reveal"
  /\ trialRef = 2
  /\ Len(reactionTimesRef) = 1 /\ missesRef = 1
  /\ pending.miss = 1

-----------------------------------------------------------------------------
\* two texts are equal when the case of their letters is ignored
SameIgnoringCase(a, b) ==
  /\ Len(a) = Len(b)
  /\ \A i \in 1..Len(a) :
       \/ a[i] = b[i]
       \/ a[i] \in DOMAIN UpperToLower /\ UpperToLower[a[i]] = b[i]
       \/ b[i] \in DOMAIN UpperToLower /\ UpperToLower[b[i]] = a[i]

\* C28: a non-empty answer is judged correct iff, ignoring case, it equals the
\* orientation label of a grating plate or the literal answer of a noise or
\* number plate; every other non-empty answer is judged incorrect. The answer
\* is the submitted text as the handler records it
C28_AnswerJudgement ==
  [][ ctEvent' = "submit" /\ Len(history') = Len(history) + 1 =>
        LET r     == history'[Len(history')]
            plate == basePlates[r.plate]
        IN  /\ r.user # <<>>
            /\ r.correct <=>
                 IF plate.type = "grating"
                 THEN SameIgnoringCase(r.user, plate.orientation)
                 ELSE SameIgnoringCase(r.user, plate.answer) ]_vars

\* a grating answered in capitals was judged correct, after a number plate
\* answered with a wrong text was judged incorrect
C28_Witness ==
  /\ ctEvent = "submit"
  /\ Len(history) >= 2
  /\ \E m \in 1..Len(history) :
       /\ basePlates[history[m].plate].type = "grating"
       /\ history[m].correct
       /\ history[m].user # basePlates[history[m].plate].orientation
  /\ \E m \in 1..Len(history) :
       /\ basePlates[history[m].plate].type = "number"
       /\ ~history[m].correct

-----------------------------------------------------------------------------
\* the claimed effective value of pool plate k at a level, in millionths: with
\* factor = 0.2 + (level / 8) * 0.8, clamp(baseContrast * factor, 0.08, 0.98)
\* for a grating or number plate and
\* max(0.05, min(1, 1 - (baseDifficulty - 1) * 0.15) * factor) for a noise plate
ClaimedEffective(k, level) ==
  LET factor == 200 + (800 * level) \div 8
      plate  == basePlates[k]
  IN  IF plate.type = "noise"
      THEN LET m == 1000 - (plate.baseDifficulty - 1) * 150
               d == (IF m <= 1000 THEN m ELSE 1000) * factor
           IN  IF d >= 50000 THEN d ELSE 50000
      ELSE LET c == plate.baseContrast * factor
           IN  IF c < 80000 THEN 80000 ELSE IF c > 980000 THEN 980000 ELSE c

\* the mapping of the code agrees with the claimed one on every level and pool
\* plate, and stays within [0.08, 0.98] and [0.05, 1]
EffectiveTable ==
  \A k \in 1..Len(basePlates), level \in 0..8 :
    LET plate == basePlates[k]
        v     == IF plate.type = "noise"
                 THEN levelToDifficulty(level, plate.baseDifficulty)
                 ELSE levelToContrast(level, plate.baseContrast)
    IN  /\ v = ClaimedEffective(k, level)
        /\ plate.type = "noise" => v >= 50000 /\ v <= 1000000
        /\ plate.type # "noise" => v >= 80000 /\ v <= 980000

\* C29: for every level in 0..8 and every pool plate the effective contrast of
\* a grating or number plate is clamp(baseContrast * factor, 0.08, 0.98) and
\* the effective difficulty factor of a noise plate is
\* max(0.05, min(1, 1 - (baseDifficulty - 1) * 0.15) * factor), within
\* [0.08, 0.98] and [0.05, 1]; both depend on the level and the plate alone, so
\* every plate presented carries the value of its plate and level
C29_EffectiveContrast ==
  /\ EffectiveTable
  /\ LET outcomes == [i \in 1..Len(history) |-> history[i].correct]
     IN  \A n \in 1..Len(history) :
            history[n].contrast =
              ClaimedEffective(history[n].plate, LevelBefore(outcomes, n))

\* a run presented a number plate clamped to 0.08 and a noise plate
C29_Witness ==
  /\ \E n \in 1..Len(history) :
       /\ basePlates[history[n].plate].type = "number"
       /\ history[n].contrast = 80000
  /\ \E n \in 1..Len(history) : basePlates[history[n].plate].type = "noise"

-----------------------------------------------------------------------------
\* C30: in every reachable state of a contrast test run trialIndex <= 9 and
\* the history holds at most 9 records, as does every record list handed to
\* finishTest; no submission is accepted once 9 trials have been answered
C30_AtMostNineTrials ==
  /\ trialIndex <= TOTAL_TRIALS
  /\ Len(history) <= TOTAL_TRIALS
  /\ \A t \in 1..Len(finishTimers) : Len(finishTimers[t]) <= TOTAL_TRIALS

-----------------------------------------------------------------------------
\* C31: after a response that is not the last, no delay of a next trial starts
\* in the step of the response: the 800 ms pause timer is set, and the delay
\* (the reveal timer of showDot) starts in the step where that timer fires;
\* after a miss that is not the last, the delay of the next trial starts in the
\* step of the miss and no pause timer is set
C31_PauseAfterResponseOnly ==
  [][ /\ (ftEvent' = "response" /\ ~done') =>
            /\ pending'.reveal = pending.reveal
            /\ pending'.pause = 1
            /\ timerRef' = "pause"
      /\ ftEvent' = "pauseOver" =>
            /\ pending'.reveal = pending.reveal + 1
            /\ pending'.pause = 0
      /\ (ftEvent' = "miss" /\ ~done') =>
            /\ pending'.reveal = pending.reveal + 1
            /\ pending'.pause = 0
      /\ pending'.reveal > pending.reveal =>
            ftEvent' \in {"start", "pauseOver", "miss"}
    ]_vars

\* the delay of the third trial has started from the pause timer of a
\* response, after the second trial's started from a miss
C31_Witness ==
  /\ ftEvent = "pauseOver"
  /\ pending.reveal = 1 /\ pending.pause = 0
  /\ trialRef = 2
  /\ missesRef = 1 /\ Len(reactionTimesRef) = 1

-----------------------------------------------------------------------------
\* the baseline is the mean, to the thousandth of the frame size, of the eye
\* centroids summed in calibSum over n frames
MeanOf(b, sum, n) ==
  /\ n * b.lx <= sum.lx /\ sum.lx < n * (b.lx + 1)
  /\ n * b.ly <= sum.ly /\ sum.ly < n * (b.ly + 1)
  /\ n * b.rx <= sum.rx /\ sum.rx < n * (b.rx + 1)
  /\ n * b.ry <= sum.ry /\ sum.ry < n * (b.ry + 1)

\* C32: when the calibration window of 40 face-bearing frames closes, each of
\* the four components of the baseline is the arithmetic mean of that
\* coordinate of the eye centroids of the 40 face-bearing frames of the window
C32_BaselineIsWindowMean ==
  faceFrames = CALIB_DURATION_FRAMES =>
    /\ baseline # <<>>
    /\ MeanOf(baseline[1], calibSum, CALIB_DURATION_FRAMES)

-----------------------------------------------------------------------------
\* texts for the two inputs beyond those the sessions of the model are run
\* with: negative, on and next to the limits, and above the upper limit (trial
\* counts in halves)
TypedTrials == RawTrialInputs \cup {<<-4>>, <<5>>, <<7>>, <<24>>, <<25>>, <<30>>}
TypedReactions ==
  RawReactionInputs \cup {<<-1>>, <<799>>, <<800>>, <<5000>>, <<5001>>, <<9000>>}

\* whatever is typed, the value an input takes lies within its limits, and a
\* text that is zero or no number gives the default
ConfigTable ==
  /\ \A raw \in TypedTrials :
       /\ trialsInput(raw) \in (2 * 3)..(2 * 12)
       /\ (raw = <<>> \/ raw[1] = 0) => trialsInput(raw) = 2 * 6
  /\ \A raw \in TypedReactions :
       /\ reactionInput(raw) \in 800..5000
       /\ (raw = <<>> \/ raw[1] = 0) => reactionInput(raw) = 2000

\* C33: the configuration a started field-test session runs with satisfies
\* 3 <= totalTrials <= 12 and 800 <= maxReactionMs <= 5000 whatever was typed
\* (a zero or non-numeric text gives 6 and 2000), it is the configuration
\* shown, and neither value changes from the start on
C33_ConfigInRangeAndFixed ==
  /\ [](ConfigTable)
  /\ [](started =>
          /\ totalTrialsRef \in (2 * 3)..(2 * 12)
          /\ maxReactionRef \in 800..5000
          /\ totalTrialsRef = totalTrials
          /\ maxReactionRef = maxReaction)
  /\ [][ started =>
           UNCHANGED <<totalTrialsRef, maxReactionRef, totalTrials, maxReaction>> ]_vars

\* a session configured with texts below both limits ("2" and "500") has
\* emitted its result after 3 trials with a window of 800 ms
C33_Witness ==
  /\ started /\ done /\ Len(fieldResults) = 1
  /\ totalTrialsRef = 2 * MinTrials
  /\ maxReactionRef = MinReaction
  /\ completedTrials = 3

-----------------------------------------------------------------------------
\* C34: during a contrast test run the history holds exactly one record per
\* accepted submission, in the order of the submissions, so |history| =
\* trialIndex in every reachable state, and the record list finishTest computes
\* the score from is exactly the history displayed
C34_HistoryIsRecordList ==
  /\ [](Len(history) = trialIndex)
  /\ [][ ctEvent' = "submit" =>
           /\ Len(history') = Len(history) + 1
           /\ SubSeq(history', 1, Len(history)) = history ]_vars
  /\ [][ ctEvent' = "submitEmpty" => history' = history ]_vars
  /\ [][ ctEvent' = "finish" => Head(finishTimers) = history ]_vars

-----------------------------------------------------------------------------
\* the pool index (0..8) of the plate presented in the current state
PresentedIndex == currentPlate(trialIndex, staircaseLevel, rngSeed).idx - 1

\* C35: with the pool of 9 plates the index of the plate presented is
\* (trialIndex + level + h(seed)) mod 9, so that after an incorrect answer at a
\* level >= 1 the next trial presents the same plate again, after a correct
\* answer at a level <= 7 the index advances by 2, and after a clamped answer
\* (correct at level 8, incorrect at level 0) it advances by 1
C35_PlateIndexAdvance ==
  /\ [](Len(basePlates) = 9)
  /\ [](PresentedIndex = (trialIndex + staircaseLevel + hash(rngSeed)) % 9)
  /\ [][ ctEvent' = "submit" =>
           LET correct == history'[Len(history')].correct
               shown   == history'[Len(history')].plate - 1
           IN  /\ shown = PresentedIndex
               /\ (~correct /\ staircaseLevel >= 1) => PresentedIndex' = shown
               /\ (correct /\ staircaseLevel <= 7) => PresentedIndex' = (shown + 2) % 9
               /\ ((correct /\ staircaseLevel = 8) \/ (~correct /\ staircaseLevel = 0))
                     => PresentedIndex' = (shown + 1) % 9 ]_vars

\* a run with five correct answers, the fifth given at level 8, and then an
\* incorrect one: the index went on by 2, by 1 after the fifth, and stayed
\* after the sixth
C35_Witness ==
  /\ ctEvent = "submit"
  /\ Len(history) = 7
  /\ \A n \in 1..5 : history[n].correct
  /\ ~history[6].correct
  /\ history[2].plate - 1 = (history[1].plate - 1 + 2) % 9
  /\ history[6].plate - 1 = (history[5].plate - 1 + 1) % 9
  /\ history[7].plate = history[6].plate

-----------------------------------------------------------------------------
\* C36: every reaction time the field test records satisfies
\* 0 <= reaction <= maxReactionMs, a response being recorded only between the
\* reveal and the expiry of the miss timer of the same trial, and so the avg of
\* an emitted result never exceeds maxReactionMs
C36_ReactionWithinWindow ==
  /\ \A n \in 1..Len(reactionTimesRef) :
       reactionTimesRef[n] >= 0 /\ reactionTimesRef[n] <= maxReactionRef
  /\ \A k \in 1..Len(fieldResults) :
       fieldResults[k].avgNum <= maxReactionRef * fieldResults[k].avgDen

-----------------------------------------------------------------------------
\* C37: every run of the contrast test, also one begun after Retry, starts
\* with trialIndex 0, an empty history and staircase level 4, whatever state
\* the run before ended in: Start Test leaves that state, and the test is never
\* at its first trial in another
C37_RunStartsFresh ==
  /\ [][ ctEvent' = "startTest" =>
           /\ phase' = "testing"
           /\ trialIndex' = 0 /\ history' = <<>> /\ staircaseLevel' = 4 ]_vars
  /\ []((phase = "testing" /\ trialIndex = 0) =>
           (history = <<>> /\ staircaseLevel = 4))

\* a run was begun after Retry, the run before having ended at level 8 with
\* nine correct answers (score 10)
C37_Witness ==
  /\ ctEvent = "startTest"
  /\ retries = 1
  /\ contrastResults = <<10>>
  /\ trialIndex = 0 /\ history = <<>> /\ staircaseLevel = 4

-----------------------------------------------------------------------------
\* C38: the step of the page stays within 1..6 under every sequence of clicks
\* on Back, Next and Restart, and the summary (step 6) is shown only after the
\* gaze tracker has passed a result to onComplete at least once, Next being
\* disabled on step 5 until then
C38_StepInRangeSummaryAfterGaze ==
  /\ step \in 1..6
  /\ step = 6 => Len(gazeResults) >= 1

\* the summary is shown after the tracker has passed one result to onComplete
\* and has been unmounted by the step to the summary
C38_Witness ==
  /\ step = 6
  /\ Len(gazeResults) = 1
  /\ ~itMounted

====
